---- MODULE Spec2Model ----
(***************************************************************************)
(* The printer-to-cloud connection Planner (src/src/connect/planner.cpp)   *)
(* as a state machine: the Planner's fields, the clock, the transfer       *)
(* Monitor it reads, and the transport driver that calls it.               *)
(***************************************************************************)
EXTENDS Integers, Sequences, FiniteSets

(***************************************************************************)
(* std::optional<T>: the empty sequence is nullopt, <<v>> holds v.         *)
(***************************************************************************)
None == <<>>
Some(v) == <<v>>
HasValue(o) == o # <<>>
Val(o) == o[1]
ValueOr(o, d) == IF o # <<>> THEN o[1] ELSE d
Min(a, b) == IF a <= b THEN a ELSE b

(***************************************************************************)
(* Timestamp and Duration are unsigned 32-bit millisecond counts. A 32-bit *)
(* value is kept as its two 16-bit halves <<high, low>>, and the           *)
(* arithmetic below is arithmetic modulo 2^32 on that form; a Duration     *)
(* known to be below 2^16 (a cooldown, an interval) is a plain number.     *)
(***************************************************************************)
Half == 65536
U32(n) == <<(n \div Half) % Half, n % Half>>
\* a + d modulo 2^32, d a plain number
U32Add(a, d) ==
    LET low == a[2] + d
    IN  <<(a[1] + (low \div Half)) % Half, low % Half>>
\* a - b modulo 2^32
U32Sub(a, b) ==
    LET borrow == IF a[2] < b[2] THEN 1 ELSE 0
    IN  <<(a[1] - b[1] - borrow) % Half, (a[2] - b[2]) % Half>>
\* a >= k, k a plain number below 2^16
U32AtLeast(a, k) == a[1] > 0 \/ a[2] >= k

COOLDOWN_BASE == 100
COOLDOWN_MAX == 1000 * 60
TELEMETRY_INTERVAL_LONG == 1000 * 4
TELEMETRY_INTERVAL_SHORT == 1000
RECONNECT_AFTER == 1000 * 10
GIVE_UP_AFTER_ATTEMPTS == 5

(***************************************************************************)
(* Bounds of the model.                                                    *)
(***************************************************************************)
\* Clock advances per run, consecutive Failed results the transport reports,
\* transfers the engine starts, server command ids, G-code lines per command.
MaxTicks == 2
MaxFails == 5
MaxFailsDeep == 12
MaxTransfers == 2
MaxCmdId == 2
MaxGcode == 1
MaxTelemetryTicks == 4

\* The clock at construction: 1000 ms before the 32-bit counter wraps.
BootBeforeWrap == 1000
\* Clock steps that meet RECONNECT_AFTER exactly and fall short of it.
TickSteps == {TELEMETRY_INTERVAL_SHORT, RECONNECT_AFTER - TELEMETRY_INTERVAL_SHORT}

CommandIds == 1..MaxCmdId
\* The id the Monitor gives the first transfer.
FirstTransfer == 1
TransferIds == FirstTransfer..MaxTransfers
Hashes == {"A", "B"}
NoHash == "none"
JobIds == {7}

\* Paths as sequences of characters.
P_usb == <<"/", "u", "s", "b">>
P_usb_f == <<"/", "u", "s", "b", "/", "f">>
P_usb_up == <<"/", "u", "s", "b", "/", ".", ".", "/", "e">>
P_home == <<"/", "h", "o", "m", "e">>
P_usbx == <<"/", "u", "s", "b", "x">>
Paths == {P_usb, P_usb_f, P_usb_up, P_home, P_usbx}

VARIABLES
    \* Planner fields
    planned_event, last_telemetry, last_success, cooldown, perform_cooldown,
    failed_attempts, info_changes, file_changes, background_command, download,
    observed_transfer, transfer_start_cmd,
    \* the clock, the transfer Monitor and the transfer slot
    now, monitor_id, monitor_outcome, next_transfer,
    \* the transport driver: where it is, and the Action it last got
    pc, action,
    \* history: clock advances, consecutive Failed results, Failed results
    \* while the current event was pending, the event the last call gave up,
    \* terminal events planned per transfer, the transfers observed, the
    \* command that started each transfer, the last two Planner calls, the
    \* last command delivered, the collaborators it invoked, and what the
    \* last next_action asked the printer
    ticks, fails, ev_fails, dropped, terminal_planned, seen, started_by, ops,
    last_cmd, calls, inputs,
    \* USB power-cycle supervisor: its atomics and its one-shot restart timer
    \* (the armed period, or none when dormant)
    phase, printing_paused, restart_timer,
    \* where io_error (worker), USBH_UserProcess with msc_active (USB thread)
    \* and the timer callback (timer service) stand inside their bodies
    worker_pc, usbh_pc, svc_pc,
    \* startup hot-plug detector: the millisecond counter and the statics
    ticks_ms, one_click_print_timeout, connected_at_startup,
    \* history: milliseconds since MX_USB_HOST_Init (none before it, counted
    \* up to the window's length), counter advances, the last USB handler
    \* step and what it called
    elapsed, usb_ticks, usb_last,
    \* history: the milliseconds since MX_USB_HOST_Init at which the mount
    \* being handled succeeded (none outside lines 168-172)
    mounted_at,
    \* history: the recoveries (print_resume, set_warning) called since the
    \* last USBH_Stop, and the last operation on the host stack
    recoveries, stack_last

plannerVars == <<planned_event, last_telemetry, last_success, cooldown,
                 perform_cooldown, failed_attempts, info_changes, file_changes,
                 background_command, download, observed_transfer,
                 transfer_start_cmd>>
envVars == <<now, monitor_id, monitor_outcome, next_transfer>>
driverVars == <<pc, action>>
histVars ==
    <<ticks, fails, ev_fails, dropped, terminal_planned, seen, started_by, ops,
      last_cmd, calls, inputs>>
connectVars == <<plannerVars, envVars, driverVars, histVars>>
supervisorVars == <<phase, printing_paused, restart_timer>>
contextVars == <<worker_pc, usbh_pc, svc_pc>>
hotplugVars == <<ticks_ms, one_click_print_timeout, connected_at_startup, elapsed,
                 usb_ticks, mounted_at>>
cycleVars == <<recoveries, stack_last>>
usbVars == <<supervisorVars, contextVars, hotplugVars, usb_last, cycleVars>>
vars == <<connectVars, usbVars>>


(***************************************************************************)
(* Helpers of planner.cpp.                                                 *)
(***************************************************************************)
\* since(past_event): now() - *past_event, which wraps ("underflow is OK").
since(past_event) ==
    IF HasValue(past_event)
    THEN Some(U32Sub(now, Val(past_event)))
    ELSE None

\* strncmp(path, prefix, strlen(prefix)) == 0
StartsWith(path, prefix) ==
    /\ Len(path) >= Len(prefix)
    /\ SubSeq(path, 1, Len(prefix)) = prefix

\* strstr(path, needle) != nullptr
Contains(path, needle) ==
    \E i \in 1..Len(path) :
        /\ i + Len(needle) - 1 <= Len(path)
        /\ SubSeq(path, i, i + Len(needle) - 1) = needle

path_allowed(path) ==
    LET is_on_usb == StartsWith(path, <<"/", "u", "s", "b", "/">>) \/ path = P_usb
        contains_upper == Contains(path, <<"/", ".", ".", "/">>)
    IN  is_on_usb /\ ~contains_upper

(***************************************************************************)
(* Change Tracker (described in the specification, section 4.1): the last  *)
(* hash seen and a dirty flag; set_hash answers whether the tracker is     *)
(* dirty afterwards, so that reset()'s mark_dirty "will trigger an Info    *)
(* message on the next one".                                               *)
(***************************************************************************)
NewTracker == [hash |-> NoHash, dirty |-> FALSE]
TrackerSetHash(t, h) == IF h # t.hash THEN [hash |-> h, dirty |-> TRUE] ELSE t
TrackerMarkDirty(t) == [t EXCEPT !.dirty = TRUE]
TrackerMarkClean(t) == [t EXCEPT !.dirty = FALSE]

(***************************************************************************)
(* Events and Actions.                                                     *)
(***************************************************************************)
Event(type, command_id) ==
    [type |-> type, command_id |-> command_id, job_id |-> None, path |-> None,
     transfer_id |-> None, reason |-> None, info_rescan_files |-> FALSE,
     start_cmd_id |-> None]

Rejected(id, reason) == [Event("Rejected", Some(id)) EXCEPT !.reason = Some(reason)]

TransferEventTypes == {"TransferFinished", "TransferAborted", "TransferStopped"}

NoAction == [kind |-> "None", amount |-> 0, cmd |-> FALSE, down |-> FALSE, event |-> None]
SendTelemetry == [NoAction EXCEPT !.kind = "SendTelemetry"]
EventAction(e) == [NoAction EXCEPT !.kind = "Event", !.event = Some(e)]

\* Variant of sleep: the background command rides on every Sleep.
sleep_AlwaysBackground(amount) ==
    [NoAction EXCEPT !.kind = "Sleep", !.amount = amount,
                     !.cmd = HasValue(background_command),
                     !.down = HasValue(download)]

\* Planner::sleep: the background command is attached only when no event is
\* planned, the download whenever there is one.
sleep(amount) ==
    LET has_event == HasValue(planned_event)
    IN  [NoAction EXCEPT !.kind = "Sleep",
                         !.amount = amount,
                         !.cmd = HasValue(background_command) /\ ~has_event,
                         !.down = HasValue(download)]

\* The switch over Monitor::Outcome in next_action.
TerminalType(outcome) ==
    CASE outcome = "Finished" -> "TransferFinished"
      [] outcome = "Error" -> "TransferAborted"
      [] outcome = "Stopped" -> "TransferStopped"

\* Variant of TelemetryInterval: a background command does not shorten it.
TelemetryInterval_PrintingOnly(printing) ==
    IF printing THEN TELEMETRY_INTERVAL_SHORT ELSE TELEMETRY_INTERVAL_LONG

\* The telemetry interval: short while printing or running a command.
TelemetryInterval(printing) ==
    IF printing \/ HasValue(background_command)
    THEN TELEMETRY_INTERVAL_SHORT
    ELSE TELEMETRY_INTERVAL_LONG

\* The tail of next_action: telemetry, or a sleep for the rest of the interval.
TelemetryOrSleep(printing) ==
    LET since_telemetry == since(last_telemetry)
        telemetry_interval == TelemetryInterval(printing)
    IN  IF HasValue(since_telemetry)
        THEN IF U32AtLeast(Val(since_telemetry), telemetry_interval)
             THEN SendTelemetry
             ELSE sleep(telemetry_interval - Val(since_telemetry)[2])
        ELSE SendTelemetry

\* Monitor::instance.outcome(id)
MonitorOutcome(id) == monitor_outcome[id]

\* observed_transfer = current_transfer, once the ids were compared.
ObservedAfter(current_transfer) == current_transfer

(***************************************************************************)
(* Planner::next_action with the printer's answers fp = info_fingerprint(),*)
(* fh = files_hash(), printing = is_printing(): the fields it changes and  *)
(* the Action it returns.                                                  *)
(***************************************************************************)
\* Variant of AfterCooldown: the cooldown stays due.
AfterCooldown_StillDue == TRUE

\* perform_cooldown once the cooldown Sleep is handed out.
AfterCooldown == FALSE

next_action(fp, fh, printing) ==
    LET keep == [perform_cooldown |-> perform_cooldown,
                 planned_event |-> planned_event,
                 info_changes |-> info_changes,
                 file_changes |-> file_changes,
                 observed_transfer |-> observed_transfer,
                 transfer_start_cmd |-> transfer_start_cmd,
                 action |-> NoAction]
    IN  IF perform_cooldown
        THEN [keep EXCEPT !.perform_cooldown = AfterCooldown,
                          !.action = sleep(Val(cooldown))]
        ELSE IF HasValue(planned_event)
        THEN [keep EXCEPT !.action = EventAction(Val(planned_event))]
        ELSE
        LET ic == TrackerSetHash(info_changes, fp)
            \* || evaluates files_hash only when the info tracker is clean
            fc == IF ic.dirty THEN file_changes ELSE TrackerSetHash(file_changes, fh)
            probed == [keep EXCEPT !.info_changes = ic, !.file_changes = fc]
        IN  IF ic.dirty \/ fc.dirty
            THEN LET ev == [Event("Info", None) EXCEPT !.info_rescan_files = fc.dirty]
                 IN  [probed EXCEPT !.planned_event = Some(ev),
                                    !.action = EventAction(ev)]
            ELSE
            LET current_transfer == monitor_id
                terminated_transfer == observed_transfer
                outcome == IF HasValue(terminated_transfer)
                           THEN MonitorOutcome(Val(terminated_transfer))
                           ELSE None
            IN  IF observed_transfer # current_transfer /\ HasValue(outcome)
                THEN LET ev == [Event(TerminalType(Val(outcome)), None) EXCEPT
                                    !.transfer_id = Some(Val(terminated_transfer)),
                                    !.start_cmd_id = transfer_start_cmd]
                     IN  [probed EXCEPT !.observed_transfer = ObservedAfter(current_transfer),
                                        !.planned_event = Some(ev),
                                        !.transfer_start_cmd = None,
                                        !.action = EventAction(ev)]
                ELSE [probed EXCEPT !.observed_transfer = ObservedAfter(current_transfer),
                                    !.action = TelemetryOrSleep(printing)]

(***************************************************************************)
(* Planner::action_done.                                                   *)
(***************************************************************************)
\* Variant of GivesUp: one attempt more is allowed.
GivesUp_Late(attempts) == (attempts + 1) % 256 > GIVE_UP_AFTER_ATTEMPTS

\* ++failed_attempts >= GIVE_UP_AFTER_ATTEMPTS, on a uint8_t.
GivesUp(attempts) == (attempts + 1) % 256 >= GIVE_UP_AFTER_ATTEMPTS

\* Variant of AfterGiveUp: an Info event is thrown away as any other.
AfterGiveUp_DropInfo(event, attempts) ==
    IF GivesUp(attempts) /\ HasValue(event) THEN None ELSE event

\* The event left after the give-up branch.
AfterGiveUp(event, attempts) ==
    IF GivesUp(attempts) /\ HasValue(event) /\ Val(event).type # "Info"
    THEN None
    ELSE event

\* Variant of Reconnects: a pending event does not hold the reconnect back.
Reconnects_IgnorePending(event) ==
    U32AtLeast(ValueOr(since(last_success), U32(0)), RECONNECT_AFTER)

\* Variant of Reconnects: a missing last_success counts as long ago.
Reconnects_NoneIsOld(event) ==
    /\ U32AtLeast(ValueOr(since(last_success), U32(RECONNECT_AFTER)), RECONNECT_AFTER)
    /\ ~HasValue(event)

\* since_success.value_or(0) >= RECONNECT_AFTER && !planned_event.has_value()
Reconnects(event) ==
    U32AtLeast(ValueOr(since(last_success), U32(0)), RECONNECT_AFTER) /\ ~HasValue(event)

\* Variant of NextCooldown: the doubling is not capped.
NextCooldown_Uncapped(c) == ValueOr(c, COOLDOWN_BASE \div 2) * 2

\* min(COOLDOWN_MAX, cooldown.value_or(COOLDOWN_BASE / 2) * 2)
NextCooldown(c) ==
    Min(COOLDOWN_MAX, ValueOr(c, COOLDOWN_BASE \div 2) * 2)

\* Variant of TelemetryAfterEvent: the event counts as a telemetry.
TelemetryAfterEvent_Now == Some(now)

\* "Enforce telemetry now": last_telemetry after an event was sent.
TelemetryAfterEvent == None

action_done(result) ==
    LET keep == [last_success |-> last_success,
                 last_telemetry |-> last_telemetry,
                 perform_cooldown |-> perform_cooldown,
                 cooldown |-> cooldown,
                 failed_attempts |-> failed_attempts,
                 planned_event |-> planned_event,
                 info_changes |-> info_changes,
                 file_changes |-> file_changes]
    IN  IF result \in {"Ok", "Refused"}
        THEN LET done == [keep EXCEPT !.last_success = Some(now),
                                      !.perform_cooldown = FALSE,
                                      !.cooldown = None,
                                      !.failed_attempts = 0]
             IN  IF HasValue(planned_event)
                 THEN LET ev == Val(planned_event)
                      IN  [done EXCEPT
                             !.info_changes = IF ev.type = "Info"
                                              THEN TrackerMarkClean(info_changes)
                                              ELSE info_changes,
                             !.file_changes = IF ev.type = "Info" /\ ev.info_rescan_files
                                              THEN TrackerMarkClean(file_changes)
                                              ELSE file_changes,
                             !.planned_event = None,
                             !.last_telemetry = TelemetryAfterEvent]
                 ELSE [done EXCEPT !.last_telemetry = Some(now)]
        ELSE LET kept == AfterGiveUp(planned_event, failed_attempts)
                 attempts == IF GivesUp(failed_attempts)
                             THEN 0
                             ELSE (failed_attempts + 1) % 256
                 reconnect == Reconnects(kept)
             IN  [keep EXCEPT !.failed_attempts = attempts,
                              !.planned_event = IF reconnect
                                                THEN Some(Event("Info", None))
                                                ELSE kept,
                              !.last_success = IF reconnect THEN None ELSE last_success,
                              !.cooldown = Some(NextCooldown(cooldown)),
                              !.perform_cooldown = TRUE]


(***************************************************************************)
(* Commands. A command is its id, its variant and the variant's payload;   *)
(* env holds what the collaborators answer while it is handled: ok is the  *)
(* printer's answer to job_control / start_print / set_ready(true), exists *)
(* is path_exists, config_changed and tls come from printer.config(false), *)
(* engine is the result of Download::start_connect_download.               *)
(***************************************************************************)
Cmd(id, kind) ==
    [id |-> id, kind |-> kind, path |-> None, job_id |-> None, size |-> 0,
     reason |-> None]

PlainKinds ==
    {"UnknownCommand", "GcodeTooLarge", "ProcessingOtherCommand",
     "ProcessingThisCommand", "PausePrint", "ResumePrint", "StopPrint", "SendInfo",
     "SendTransferInfo", "SetPrinterReady", "CancelPrinterReady"}
PathKinds == {"StartPrint", "SendFileInfo", "StartConnectDownload"}
CommandKinds == PlainKinds \cup PathKinds \cup {"BrokenCommand", "Gcode", "SendJobInfo"}

\* The commands with an id in ids and a path in paths.
AllCommands(ids, paths) ==
    {Cmd(id, k) : id \in ids, k \in PlainKinds}
    \cup {[Cmd(id, "BrokenCommand") EXCEPT !.reason = Some("Missing parameters")] :
              id \in ids}
    \cup {[Cmd(id, "Gcode") EXCEPT !.size = n] : id \in ids, n \in 1..MaxGcode}
    \cup {[Cmd(id, k) EXCEPT !.path = Some(p)] :
              id \in ids, k \in PathKinds, p \in paths}
    \cup {[Cmd(id, "SendJobInfo") EXCEPT !.job_id = Some(j)] : id \in ids, j \in JobIds}

\* Those of the given variants.
CommandsOf(ids, paths, kinds) == {c \in AllCommands(ids, paths) : c.kind \in kinds}

Env(ok, exists, config_changed, tls, engine) ==
    [ok |-> ok, exists |-> exists, config_changed |-> config_changed, tls |-> tls,
     engine |-> engine]

\* What the transfer engine can answer: a Download only when its single slot
\* is free (and fewer than cap transfers were started), NoTransferSlot only
\* when it is taken.
EngineResults(cap) ==
    {"AlreadyExists", "RefusedRequest", "Storage"}
    \cup (IF HasValue(monitor_id) THEN {"NoTransferSlot"} ELSE {})
    \cup (IF ~HasValue(monitor_id) /\ next_transfer <= cap
          THEN {"Download"} ELSE {})

\* The answers that matter to a command variant.
EnvsOf(c, cap) ==
    CASE c.kind \in {"PausePrint", "ResumePrint", "StopPrint", "SetPrinterReady"} ->
            {Env(ok, TRUE, FALSE, FALSE, "RefusedRequest") : ok \in BOOLEAN}
      [] c.kind = "StartPrint" ->
            {Env(ok, ex, FALSE, FALSE, "RefusedRequest") : ok \in BOOLEAN, ex \in BOOLEAN}
      [] c.kind = "StartConnectDownload" ->
            {Env(TRUE, TRUE, cc, tls, r) :
                cc \in BOOLEAN, tls \in BOOLEAN, r \in EngineResults(cap)}
      [] OTHER -> {Env(TRUE, TRUE, FALSE, FALSE, "RefusedRequest")}

StorageMsg == "Storage error"

\* The JC(CMD, REASON) overloads.
JobControlReason(kind) ==
    CASE kind = "PausePrint" -> "No print to pause"
      [] kind = "ResumePrint" -> "No paused print to resume"
      [] kind = "StopPrint" -> "No print to stop"

\* Planner::command(const Command &, const StartPrint &)
StartPrintEvent(c, env) ==
    LET path == Val(c.path)
        reason == IF ~path_allowed(path) THEN Some("Forbidden path")
                  ELSE IF ~env.exists THEN Some("File not found")
                  ELSE IF ~env.ok THEN Some("Can't print now")
                  ELSE None
    IN  IF reason = None
        THEN Event("Finished", Some(c.id))
        ELSE Rejected(c.id, Val(reason))

\* Planner::command(const Command &, const StartConnectDownload &): the event
\* it plans.
DownloadEvent(c, env) ==
    IF env.config_changed THEN Rejected(c.id, "Switching config")
    ELSE IF env.tls THEN Rejected(c.id, "Encryption of downloads not supported")
    ELSE CASE env.engine = "Download" -> Event("Finished", Some(c.id))
           [] env.engine = "NoTransferSlot" -> Rejected(c.id, "Another transfer in progress")
           [] env.engine = "AlreadyExists" -> Rejected(c.id, "File already exists")
           [] env.engine = "RefusedRequest" -> Rejected(c.id, "Failed to download")
           [] env.engine = "Storage" -> Rejected(c.id, StorageMsg)

\* Variant of EngineCalled: the engine is asked whatever the TLS setting.
EngineCalled_IgnoreTls(c, env) ==
    c.kind = "StartConnectDownload" /\ ~env.config_changed

\* Whether StartConnectDownload reaches the transfer engine.
EngineCalled(c, env) ==
    c.kind = "StartConnectDownload" /\ ~env.config_changed /\ ~env.tls

\* Variant of DownloadStarted: whatever the engine answers is kept as a
\* Download.
DownloadStarted_AnyAnswer(c, env) == EngineCalled(c, env)

\* Whether the engine hands out a Download.
DownloadStarted(c, env) == EngineCalled(c, env) /\ env.engine = "Download"

\* The per-variant overloads of Planner::command: the event each plans.
VariantEvent(c, env) ==
    CASE c.kind = "UnknownCommand" -> Rejected(c.id, "Unknown command")
      [] c.kind = "BrokenCommand" -> Rejected(c.id, Val(c.reason))
      [] c.kind = "GcodeTooLarge" -> Rejected(c.id, "GCode too large")
      [] c.kind = "ProcessingOtherCommand" -> Rejected(c.id, "Processing other command")
      [] c.kind = "Gcode" -> Event("Accepted", Some(c.id))
      [] c.kind \in {"PausePrint", "ResumePrint", "StopPrint"} ->
            IF env.ok
            THEN Event("Finished", Some(c.id))
            ELSE Rejected(c.id, JobControlReason(c.kind))
      [] c.kind = "StartPrint" -> StartPrintEvent(c, env)
      [] c.kind = "SendInfo" -> Event("Info", Some(c.id))
      [] c.kind = "SendJobInfo" ->
            [Event("JobInfo", Some(c.id)) EXCEPT !.job_id = c.job_id]
      [] c.kind = "SendFileInfo" ->
            IF path_allowed(Val(c.path))
            THEN [Event("FileInfo", Some(c.id)) EXCEPT !.path = c.path]
            ELSE Rejected(c.id, "Forbidden path")
      [] c.kind = "SendTransferInfo" ->
            [Event("TransferInfo", Some(c.id)) EXCEPT !.start_cmd_id = transfer_start_cmd]
      [] c.kind = "SetPrinterReady" ->
            IF env.ok
            THEN Event("Finished", Some(c.id))
            ELSE Rejected(c.id, "Can't set ready now")
      [] c.kind = "CancelPrinterReady" -> Event("Finished", Some(c.id))
      [] c.kind = "StartConnectDownload" -> DownloadEvent(c, env)

\* The collaborators' operations a variant overload invokes.
VariantCalls(c, env) ==
    CASE c.kind \in {"PausePrint", "ResumePrint", "StopPrint"} -> {"job_control"}
      [] c.kind = "StartPrint" ->
            IF ~path_allowed(Val(c.path)) THEN {}
            ELSE IF ~env.exists THEN {"path_exists"}
            ELSE {"path_exists", "start_print"}
      [] c.kind \in {"SetPrinterReady", "CancelPrinterReady"} -> {"set_ready"}
      [] c.kind = "StartConnectDownload" ->
            IF EngineCalled(c, env)
            THEN {"config", "printer_info", "start_connect_download"}
            ELSE {"config"}
      [] OTHER -> {}

\* Variant of BusyEvent: the rejection names the command being processed.
BusyEvent_RunningId(c) ==
    Event(IF c.kind = "ProcessingThisCommand" THEN "Accepted" ELSE "Rejected",
          Some(Val(background_command).id))

\* Planner::command(Command): with a background command running the event is
\* Accepted for ProcessingThisCommand and Rejected otherwise, and nothing else
\* happens; without one the variant's overload runs.
BusyEvent(c) ==
    Event(IF c.kind = "ProcessingThisCommand" THEN "Accepted" ELSE "Rejected",
          Some(c.id))

\* Variant of Busy: a new Gcode replaces the one being processed.
Busy_GcodeReplaces(c) == HasValue(background_command) /\ c.kind # "Gcode"

\* background_command.has_value(): a command is already being processed when
\* c arrives.
Busy(c) == HasValue(background_command)

command(c, env) ==
    LET keep == [planned_event |-> planned_event,
                 background_command |-> background_command,
                 download |-> download,
                 transfer_start_cmd |-> transfer_start_cmd,
                 calls |-> {}]
    IN  IF Busy(c)
        THEN [keep EXCEPT !.planned_event = Some(BusyEvent(c))]
        ELSE [keep EXCEPT
                !.planned_event = Some(VariantEvent(c, env)),
                !.background_command =
                    IF c.kind = "Gcode"
                    THEN Some([id |-> c.id, size |-> c.size, position |-> 0])
                    ELSE background_command,
                !.download =
                    IF DownloadStarted(c, env) THEN Some(next_transfer) ELSE download,
                !.transfer_start_cmd =
                    IF DownloadStarted(c, env) THEN Some(c.id) ELSE transfer_start_cmd,
                !.calls = VariantCalls(c, env)]

\* Planner::background_command_id
background_command_id ==
    IF HasValue(background_command) THEN Some(Val(background_command).id) ELSE None

\* Planner::background_done: the event it plans.
background_done(result) ==
    Event(IF result = "Success" THEN "Finished" ELSE "Failed", background_command_id)


(***************************************************************************)
(* The Planner's operations as actions on the state. The history           *)
(* variables record what the claims speak about and change nothing the     *)
(* Planner reads.                                                          *)
(***************************************************************************)
Called(op) == ops' = <<ops[2], op>>

\* The transfer ids observed_transfer has held are collected in seen, the
\* command that started a transfer is remembered in started_by.
Ids(transfer) == IF HasValue(transfer) THEN {Val(transfer)} ELSE {}

\* Terminal events planned for a transfer, counted up to two.
CountTerminal(before, after) ==
    IF /\ after # before
       /\ HasValue(after)
       /\ Val(after).type \in TransferEventTypes
    THEN [terminal_planned EXCEPT ![Val(Val(after).transfer_id)] = Min(2, @ + 1)]
    ELSE terminal_planned

\* What next_action asked the printer in this call: the fingerprint and the
\* files hash once the probe is reached, is_printing once the telemetry step
\* is; nothing in a call that returns before the probe.
Asked(fp, fh, printing) ==
    IF perform_cooldown \/ HasValue(planned_event)
    THEN None
    ELSE LET r == next_action(fp, fh, printing)
         IN  Some([fp |-> fp, fh |-> fh,
                   printing |-> printing /\ r.planned_event = planned_event])

NextAction(fp, fh, printing) ==
    \* assert(cooldown.has_value())
    /\ perform_cooldown => HasValue(cooldown)
    /\ LET r == next_action(fp, fh, printing)
       IN  /\ perform_cooldown' = r.perform_cooldown
           /\ planned_event' = r.planned_event
           /\ info_changes' = r.info_changes
           /\ file_changes' = r.file_changes
           /\ observed_transfer' = r.observed_transfer
           /\ transfer_start_cmd' = r.transfer_start_cmd
           /\ action' = r.action
           /\ terminal_planned' = CountTerminal(planned_event, r.planned_event)
           /\ seen' = seen \cup Ids(r.observed_transfer)
           /\ started_by' = started_by
           /\ ev_fails' = IF r.planned_event # planned_event THEN 0 ELSE ev_fails
    /\ dropped' = None
    /\ calls' = {}
    /\ last_cmd' = None
    /\ inputs' = Asked(fp, fh, printing)
    /\ Called("next_action")
    /\ UNCHANGED <<last_telemetry, last_success, cooldown, failed_attempts,
                   background_command, download, envVars, ticks, fails>>
    /\ UNCHANGED usbVars

\* What an action_done call is remembered as.
DoneTag(result) ==
    IF result = "Failed" THEN "failed"
    ELSE IF ~HasValue(planned_event) THEN
        (IF result = "Ok" THEN "ok_plain" ELSE "refused_plain")
    ELSE IF Val(planned_event).type = "Info" THEN
        (IF result = "Ok" THEN "ok_info" ELSE "refused_info")
    ELSE (IF result = "Ok" THEN "ok_event" ELSE "refused_event")

ActionDone(result) ==
    /\ LET r == action_done(result)
           gave_up == /\ result = "Failed"
                      /\ HasValue(planned_event)
                      /\ AfterGiveUp(planned_event, failed_attempts) # planned_event
       IN  /\ last_success' = r.last_success
           /\ last_telemetry' = r.last_telemetry
           /\ perform_cooldown' = r.perform_cooldown
           /\ cooldown' = r.cooldown
           /\ failed_attempts' = r.failed_attempts
           /\ planned_event' = r.planned_event
           /\ info_changes' = r.info_changes
           /\ file_changes' = r.file_changes
           /\ fails' = IF result = "Failed" THEN fails + 1 ELSE 0
           /\ ev_fails' = IF result = "Failed" /\ r.planned_event = planned_event
                             /\ HasValue(planned_event)
                          THEN ev_fails + 1
                          ELSE 0
           /\ dropped' = IF gave_up
                         THEN Some([event |-> Val(planned_event),
                                    fails |-> ev_fails + 1])
                         ELSE None
    /\ calls' = {}
    /\ last_cmd' = None
    /\ inputs' = None
    /\ Called(DoneTag(result))
    /\ UNCHANGED <<background_command, download, observed_transfer,
                   transfer_start_cmd, envVars, action, ticks, terminal_planned,
                   seen, started_by>>
    /\ UNCHANGED usbVars

Command(c, env) ==
    \* assert(!planned_event.has_value())
    /\ ~HasValue(planned_event)
    \* command(const Command &, const ProcessingThisCommand &): assert(0), reached
    \* only when no background command is running
    /\ c.kind = "ProcessingThisCommand" => HasValue(background_command)
    /\ LET r == command(c, env)
       IN  /\ planned_event' = r.planned_event
           /\ background_command' = r.background_command
           /\ download' = r.download
           /\ transfer_start_cmd' = r.transfer_start_cmd
           /\ calls' = r.calls
           \* the engine's Download takes the slot; the Monitor shows its id
           /\ IF r.download # download
              THEN /\ monitor_id' = Some(next_transfer)
                   /\ next_transfer' = next_transfer + 1
                   /\ started_by' = [started_by EXCEPT ![next_transfer] = Some(c.id)]
              ELSE UNCHANGED <<monitor_id, next_transfer, started_by>>
    /\ last_cmd' = Some([id |-> c.id, kind |-> c.kind,
                         config_changed |-> env.config_changed, tls |-> env.tls])
    /\ inputs' = None
    /\ ev_fails' = 0
    /\ dropped' = None
    /\ Called("command")
    /\ UNCHANGED <<last_telemetry, last_success, cooldown, perform_cooldown,
                   failed_attempts, info_changes, file_changes, observed_transfer,
                   now, monitor_outcome, action, ticks, fails, terminal_planned,
                   seen>>
    /\ UNCHANGED usbVars

BackgroundDone(result) ==
    \* assert(!planned_event.has_value()); assert(background_command.has_value())
    /\ ~HasValue(planned_event)
    /\ HasValue(background_command)
    /\ planned_event' = Some(background_done(result))
    /\ background_command' = None
    /\ ev_fails' = 0
    /\ dropped' = None
    /\ calls' = {}
    /\ last_cmd' = None
    /\ inputs' = None
    /\ Called("background_done")
    /\ UNCHANGED <<last_telemetry, last_success, cooldown, perform_cooldown,
                   failed_attempts, info_changes, file_changes, download,
                   observed_transfer, transfer_start_cmd, envVars, ticks, fails,
                   terminal_planned, seen, started_by>>
    /\ UNCHANGED usbVars

\* Planner::download_done; destroying the Download releases the slot, and the
\* Monitor keeps the transfer's outcome.
DownloadDone(outcome) ==
    \* assert(download.has_value()); assert(observed_transfer.has_value())
    /\ HasValue(download)
    /\ HasValue(monitor_id)
    /\ observed_transfer' = monitor_id
    /\ download' = None
    /\ monitor_outcome' = [monitor_outcome EXCEPT ![Val(monitor_id)] = Some(outcome)]
    /\ monitor_id' = None
    /\ seen' = seen \cup Ids(monitor_id)
    /\ started_by' = started_by
    /\ dropped' = None
    /\ calls' = {}
    /\ last_cmd' = None
    /\ inputs' = None
    /\ Called("download_done")
    /\ UNCHANGED <<planned_event, last_telemetry, last_success, cooldown,
                   perform_cooldown, failed_attempts, info_changes, file_changes,
                   background_command, transfer_start_cmd, now, next_transfer,
                   ticks, fails, ev_fails, terminal_planned>>
    /\ UNCHANGED usbVars

Reset ==
    /\ info_changes' = TrackerMarkDirty(info_changes)
    /\ last_telemetry' = None
    /\ cooldown' = None
    /\ perform_cooldown' = FALSE
    /\ failed_attempts' = 0
    /\ fails' = 0
    /\ ev_fails' = 0
    /\ dropped' = None
    /\ calls' = {}
    /\ last_cmd' = None
    /\ inputs' = None
    /\ Called("reset")
    /\ UNCHANGED <<planned_event, last_success, file_changes, background_command,
                   download, observed_transfer, transfer_start_cmd, envVars,
                   ticks, terminal_planned, seen, started_by>>
    /\ UNCHANGED usbVars

(***************************************************************************)
(* The environment: the clock, and transfers the Planner did not start.    *)
(***************************************************************************)
Tick(d, cap) ==
    /\ ticks < cap
    /\ now' = U32Add(now, d)
    /\ ticks' = ticks + 1
    /\ UNCHANGED <<plannerVars, monitor_id, monitor_outcome, next_transfer,
                   fails, ev_fails, dropped, terminal_planned, seen, started_by, ops, last_cmd,
                   calls, inputs>>
    /\ UNCHANGED usbVars

ForeignStart(cap) ==
    /\ ~HasValue(monitor_id)
    /\ next_transfer <= cap
    /\ monitor_id' = Some(next_transfer)
    /\ next_transfer' = next_transfer + 1
    /\ UNCHANGED <<plannerVars, now, monitor_outcome, histVars>>
    /\ UNCHANGED usbVars

ForeignEnd(outcome) ==
    /\ HasValue(monitor_id)
    /\ ~HasValue(download)
    /\ monitor_outcome' = [monitor_outcome EXCEPT ![Val(monitor_id)] = Some(outcome)]
    /\ monitor_id' = None
    /\ UNCHANGED <<plannerVars, now, next_transfer, histVars>>
    /\ UNCHANGED usbVars

\* The Monitor's history is bounded: an outcome may be gone when asked for.
MonitorForget(t) ==
    /\ HasValue(monitor_outcome[t])
    /\ monitor_outcome' = [monitor_outcome EXCEPT ![t] = None]
    /\ UNCHANGED <<plannerVars, now, monitor_id, next_transfer, histVars>>
    /\ UNCHANGED usbVars

Outcomes == {"Finished", "Error", "Stopped"}
Results == {"Ok", "Refused", "Failed"}

(***************************************************************************)
(* The transport driver: it asks for the next action, performs it, reports *)
(* the result of a send, delivers the command a successful telemetry       *)
(* brought, and during a Sleep advances what the Sleep carries.            *)
(***************************************************************************)
DrvNextAction(fp, fh, printing) ==
    /\ pc = "idle"
    /\ NextAction(fp, fh, printing)
    /\ pc' = IF action'.kind = "Sleep" THEN "sleeping" ELSE "sending"

DrvActionDone(result, cap) ==
    /\ pc = "sending"
    /\ result = "Failed" => fails < cap
    /\ ActionDone(result)
    /\ pc' = IF action.kind = "SendTelemetry" /\ result = "Ok" THEN "command" ELSE "idle"

DrvCommand(c, env) ==
    /\ pc = "command"
    /\ Command(c, env)
    /\ pc' = "idle"

DrvNoCommand ==
    /\ pc = "command"
    /\ pc' = "idle"
    /\ UNCHANGED <<plannerVars, envVars, action, histVars>>
    /\ UNCHANGED usbVars

DrvBackgroundStep ==
    /\ pc = "sleeping"
    /\ action.cmd
    /\ HasValue(background_command)
    /\ Val(background_command).position < Val(background_command).size
    /\ background_command' =
          Some([Val(background_command) EXCEPT !.position = @ + 1])
    /\ UNCHANGED <<planned_event, last_telemetry, last_success, cooldown,
                   perform_cooldown, failed_attempts, info_changes, file_changes,
                   download, observed_transfer, transfer_start_cmd, envVars,
                   driverVars, histVars>>
    /\ UNCHANGED usbVars

DrvBackgroundDone(result) ==
    /\ pc = "sleeping"
    /\ action.cmd
    /\ HasValue(background_command)
    /\ result = "Success" =>
          Val(background_command).position = Val(background_command).size
    /\ BackgroundDone(result)
    /\ action' = [action EXCEPT !.cmd = FALSE]
    /\ pc' = pc

DrvDownloadDone(outcome) ==
    /\ pc = "sleeping"
    /\ action.down
    /\ DownloadDone(outcome)
    /\ action' = [action EXCEPT !.down = FALSE]
    /\ pc' = pc

DrvWake ==
    /\ pc = "sleeping"
    /\ pc' = "idle"
    /\ UNCHANGED <<plannerVars, envVars, action, histVars>>
    /\ UNCHANGED usbVars

DrvTick(d, cap) ==
    /\ pc \in {"sending", "sleeping"}
    /\ Tick(d, cap)
    /\ UNCHANGED driverVars

DrvForeignStart(cap) == ForeignStart(cap) /\ UNCHANGED driverVars
DrvForeignEnd(outcome) == ForeignEnd(outcome) /\ UNCHANGED driverVars
DrvMonitorForget(t) == MonitorForget(t) /\ UNCHANGED driverVars

(***************************************************************************)
(* The USB host: the power-cycle supervisor (namespace usbh_power_cycle)   *)
(* and the startup hot-plug detector.                                      *)
(***************************************************************************)
\* Periods of the restart timer and the length of the startup window, ms.
RestartDelay == 10
PowerOffTime == 150
PowerOnTimeout == 5000
StartupWindow == 3000

\* Counter advances per run.
MaxUsbTicks == 2

\* a + b modulo 2^32, and a < b as unsigned 32-bit values
U32Plus(a, b) == U32Add(<<(a[1] + b[1]) % Half, a[2]>>, b[2])
U32Less(a, b) == a[1] < b[1] \/ (a[1] = b[1] /\ a[2] < b[2])

\* The counter when MX_USB_HOST_Init runs: at and after zero, and within the
\* window's length of the wrap.
BootTicks ==
    {U32(0), U32(TELEMETRY_INTERVAL_SHORT), U32Sub(U32(0), U32(StartupWindow)),
     U32Sub(U32(0), U32(BootBeforeWrap))}
\* Counter advances: inside the window, to its end, and almost a full period.
UsbSteps ==
    {U32(TELEMETRY_INTERVAL_SHORT), U32(StartupWindow - TELEMETRY_INTERVAL_SHORT),
     U32Sub(U32(0), U32(StartupWindow - TELEMETRY_INTERVAL_SHORT))}

UserIds == {"SELECT_CONFIGURATION", "DISCONNECTION", "CLASS_ACTIVE", "CONNECTION"}
MountResults == {"FR_OK", "FR_DISK_ERR"}

UsbDidFor(handler, event, id, call) ==
    /\ usb_last' = [handler |-> handler, event |-> event, id |-> id, call |-> call]
    /\ stack_last' = IF call \in {"USBH_Start", "USBH_Stop"} THEN call ELSE stack_last
    /\ recoveries' =
          CASE call = "USBH_Stop" -> {}
            [] call \in {"print_resume", "set_warning"} -> recoveries \cup {call}
            [] OTHER -> recoveries

UsbDid(handler, id, call) == UsbDidFor(handler, "none", id, call)

\* io_error, port_disabled: whether the trigger arms the restart timer.
TriggerArms(p) == p = "idle"

\* msc_active: whether it resumes the print.
MscResumes(p, paused) == p = "power_on" /\ paused

\* restart_timer_callback: the phase each case stores, the period it gives
\* the timer (none: the expired one-shot timer is left dormant), and what it
\* calls.
CallbackPhase(p) ==
    CASE p = "idle" -> "power_off"
      [] p = "power_off" -> "power_on"
      [] p = "power_on" -> "idle"
CallbackPeriod(p) ==
    CASE p = "idle" -> Some(PowerOffTime)
      [] p = "power_off" -> Some(PowerOnTimeout)
      [] p = "power_on" -> None
CallbackCall(p, paused) ==
    CASE p = "idle" -> "USBH_Stop"
      [] p = "power_off" -> "USBH_Start"
      [] p = "power_on" -> IF paused THEN "set_warning" ELSE "none"

\* USBH_UserProcess, line 148: the deadline after the window check.
WindowAfterCheck(t, deadline) ==
    IF deadline # U32(0) /\ ~U32Less(t, deadline) THEN U32(0) ELSE deadline
\* USBH_UserProcess, line 170: whether a mount at t counts as at startup.
WindowOpen(t, deadline) == deadline # U32(0) /\ U32Less(t, deadline)

\* Variant of ConnectedAfter: a disconnection leaves the flag.
ConnectedAfter_DisconnectionKeeps(id, fr, open, flag) ==
    CASE id = "CLASS_ACTIVE" /\ fr = "FR_OK" /\ open -> TRUE
      [] OTHER -> flag

\* USBH_UserProcess: connected_at_startup after the switch.
ConnectedAfter(id, fr, open, flag) ==
    CASE id = "DISCONNECTION" -> FALSE
      [] id = "CLASS_ACTIVE" /\ fr = "FR_OK" /\ open -> TRUE
      [] OTHER -> flag

device_connected_at_startup == connected_at_startup

(***************************************************************************)
(* MX_USB_HOST_Init runs before any handler; port_disabled is an interrupt *)
(* handler and media_state_error is one atomic store.                      *)
(***************************************************************************)
MX_USB_HOST_Init ==
    /\ ~HasValue(elapsed)
    /\ one_click_print_timeout' = U32Add(ticks_ms, StartupWindow)
    /\ elapsed' = Some(0)
    /\ UsbDid("MX_USB_HOST_Init", "none", "USBH_Start")
    /\ UNCHANGED <<connectVars, supervisorVars, contextVars, ticks_ms,
                   connected_at_startup, usb_ticks, mounted_at>>

\* An interrupt handler: no task runs inside it.
PortDisabled ==
    /\ HasValue(elapsed)
    /\ restart_timer' = IF TriggerArms(phase) THEN Some(RestartDelay) ELSE restart_timer
    /\ UsbDid("port_disabled", "none", "none")
    /\ UNCHANGED <<connectVars, phase, printing_paused, contextVars, hotplugVars>>

MediaStateError ==
    /\ HasValue(elapsed)
    /\ printing_paused' = TRUE
    /\ UsbDid("media_state_error", "none", "none")
    /\ UNCHANGED <<connectVars, phase, restart_timer, contextVars, hotplugVars>>

UsbTick(d) ==
    /\ HasValue(elapsed)
    /\ usb_ticks < MaxUsbTicks
    /\ usb_ticks' = usb_ticks + 1
    /\ ticks_ms' = U32Plus(ticks_ms, d)
    /\ elapsed' = Some(IF d[1] > 0 \/ Val(elapsed) + d[2] >= StartupWindow
                       THEN StartupWindow ELSE Val(elapsed) + d[2])
    /\ UsbDid("ticks_ms", "none", "none")
    /\ UNCHANGED <<connectVars, supervisorVars, contextVars,
                   one_click_print_timeout, connected_at_startup, mounted_at>>

(***************************************************************************)
(* The handlers that run in tasks, one load, store or call at a time: the  *)
(* other tasks, the interrupt and the counter run between their steps.     *)
(***************************************************************************)
IoErrorStep ==
    /\ HasValue(elapsed)
    /\ \/ /\ worker_pc = "idle"
          /\ worker_pc' = IF TriggerArms(phase) THEN "arm" ELSE "idle"
          /\ UsbDid("io_error", "check", "none")
          /\ UNCHANGED restart_timer
       \/ /\ worker_pc = "arm"
          /\ restart_timer' = Some(RestartDelay)
          /\ worker_pc' = "idle"
          /\ UsbDid("io_error", "arm", "none")
    /\ UNCHANGED <<connectVars, phase, printing_paused, usbh_pc, svc_pc, hotplugVars>>

\* USBH_UserProcess in the USBH task: the window check with its reading of
\* the counter (148-150) and the switch; the store of the disconnection
\* (163); f_mount (168); the test of line 170 with the second reading of the
\* counter; the store of line 171; then msc_active is called (176).
USBH_UserProcessStep ==
    /\ HasValue(elapsed)
    /\ \/ \E id \in UserIds :
             /\ usbh_pc = "idle"
             /\ one_click_print_timeout' =
                   WindowAfterCheck(ticks_ms, one_click_print_timeout)
             /\ usbh_pc' = CASE id = "DISCONNECTION" -> "disconnect"
                             [] id = "CLASS_ACTIVE" -> "mount"
                             [] OTHER -> "idle"
             /\ UsbDidFor("USBH_UserProcess", id, "check", "none")
             /\ UNCHANGED <<connected_at_startup, mounted_at>>
       \/ /\ usbh_pc = "disconnect"
          /\ connected_at_startup' =
                ConnectedAfter("DISCONNECTION", "FR_OK", FALSE, connected_at_startup)
          /\ usbh_pc' = "idle"
          /\ UsbDidFor("USBH_UserProcess", "DISCONNECTION", "store", "none")
          /\ UNCHANGED <<one_click_print_timeout, mounted_at>>
       \/ \E fr \in MountResults :
             /\ usbh_pc = "mount"
             /\ usbh_pc' = IF fr = "FR_OK" THEN "window" ELSE "idle"
             /\ mounted_at' = IF fr = "FR_OK" THEN elapsed ELSE None
             /\ UsbDidFor("USBH_UserProcess", "CLASS_ACTIVE", fr, "none")
             /\ UNCHANGED <<one_click_print_timeout, connected_at_startup>>
       \/ /\ usbh_pc = "window"
          /\ LET open == WindowOpen(ticks_ms, one_click_print_timeout)
             IN  /\ usbh_pc' = IF open THEN "set" ELSE "msc"
                 /\ mounted_at' = IF open THEN mounted_at ELSE None
          /\ UsbDidFor("USBH_UserProcess", "CLASS_ACTIVE", "window", "none")
          /\ UNCHANGED <<one_click_print_timeout, connected_at_startup>>
       \/ /\ usbh_pc = "set"
          \* the test of line 170 has passed
          /\ connected_at_startup' =
                ConnectedAfter("CLASS_ACTIVE", "FR_OK", TRUE, connected_at_startup)
          /\ usbh_pc' = "msc"
          /\ mounted_at' = None
          /\ UsbDidFor("USBH_UserProcess", "CLASS_ACTIVE", "set", "none")
          /\ UNCHANGED one_click_print_timeout
    /\ UNCHANGED <<connectVars, supervisorVars, worker_pc, svc_pc, ticks_ms,
                   elapsed, usb_ticks>>

\* msc_active, called by USBH_UserProcess: the two loads of its test (71),
\* the stores and the timer call (72-74), print_resume (82).
MscActiveStep ==
    /\ \/ /\ usbh_pc = "msc"
          /\ usbh_pc' = IF MscResumes(phase, TRUE) THEN "paused" ELSE "idle"
          /\ UsbDid("msc_active", "phase", "none")
          /\ UNCHANGED supervisorVars
       \/ /\ usbh_pc = "paused"
          /\ usbh_pc' = IF MscResumes("power_on", printing_paused) THEN "clear" ELSE "idle"
          /\ UsbDid("msc_active", "paused", "none")
          /\ UNCHANGED supervisorVars
       \/ /\ usbh_pc = "clear"
          /\ printing_paused' = FALSE
          /\ usbh_pc' = "stop"
          /\ UsbDid("msc_active", "clear", "none")
          /\ UNCHANGED <<phase, restart_timer>>
       \/ /\ usbh_pc = "stop"
          /\ restart_timer' = None
          /\ usbh_pc' = "store"
          /\ UsbDid("msc_active", "stop", "none")
          /\ UNCHANGED <<phase, printing_paused>>
       \/ /\ usbh_pc = "store"
          /\ phase' = "idle"
          /\ usbh_pc' = "resume"
          /\ UsbDid("msc_active", "store", "none")
          /\ UNCHANGED <<printing_paused, restart_timer>>
       \/ /\ usbh_pc = "resume"
          /\ usbh_pc' = "idle"
          /\ UsbDid("msc_active", "resume", "print_resume")
          /\ UNCHANGED supervisorVars
    /\ UNCHANGED <<connectVars, worker_pc, svc_pc, hotplugVars>>

\* restart_timer_callback in the timer service task. svc_pc is <<position,
\* case of the switch, printing_paused as loaded at line 104>>.
TimerCallbackStep ==
    /\ \/ /\ svc_pc[1] = "idle"
          /\ HasValue(restart_timer)
          /\ restart_timer' = None
          /\ svc_pc' = <<"switch", "none", FALSE>>
          /\ UsbDid("restart_timer_callback", "expire", "none")
          /\ UNCHANGED <<phase, printing_paused>>
       \/ /\ svc_pc[1] = "switch"
          /\ svc_pc' = <<"store", phase, FALSE>>
          /\ UsbDid("restart_timer_callback", "switch", "none")
          /\ UNCHANGED supervisorVars
       \/ /\ svc_pc[1] = "store"
          /\ phase' = CallbackPhase(svc_pc[2])
          /\ svc_pc' = <<IF HasValue(CallbackPeriod(svc_pc[2])) THEN "arm" ELSE "paused",
                         svc_pc[2], FALSE>>
          /\ UsbDid("restart_timer_callback", "store", "none")
          /\ UNCHANGED <<printing_paused, restart_timer>>
       \/ /\ svc_pc[1] = "arm"
          /\ restart_timer' = CallbackPeriod(svc_pc[2])
          /\ svc_pc' = <<"call", svc_pc[2], FALSE>>
          /\ UsbDid("restart_timer_callback", "arm", "none")
          /\ UNCHANGED <<phase, printing_paused>>
       \/ /\ svc_pc[1] = "paused"
          /\ svc_pc' = <<"call", svc_pc[2], printing_paused>>
          /\ UsbDid("restart_timer_callback", "paused", "none")
          /\ UNCHANGED supervisorVars
       \/ /\ svc_pc[1] = "call"
          /\ svc_pc' = <<"idle", "none", FALSE>>
          /\ UsbDid("restart_timer_callback", "call",
                    CallbackCall(svc_pc[2], svc_pc[3]))
          /\ UNCHANGED supervisorVars
    /\ UNCHANGED <<connectVars, worker_pc, usbh_pc, hotplugVars>>

InitUsb(boot) ==
    /\ phase = "idle"
    /\ printing_paused = FALSE
    /\ restart_timer = None
    /\ worker_pc = "idle"
    /\ usbh_pc = "idle"
    /\ svc_pc = <<"idle", "none", FALSE>>
    /\ ticks_ms = boot
    /\ one_click_print_timeout = U32(0)
    /\ connected_at_startup = FALSE
    /\ elapsed = None
    /\ usb_ticks = 0
    /\ mounted_at = None
    /\ usb_last = [handler |-> "none", event |-> "none", id |-> "none", call |-> "none"]
    /\ recoveries = {}
    /\ stack_last = "none"

InitPlanner ==
    /\ planned_event = None
    /\ last_telemetry = None
    /\ last_success = None
    /\ cooldown = None
    /\ perform_cooldown = FALSE
    /\ failed_attempts = 0
    /\ info_changes = NewTracker
    /\ file_changes = NewTracker
    /\ background_command = None
    /\ download = None
    /\ observed_transfer = None
    /\ transfer_start_cmd = None

InitEnv ==
    /\ now = U32Sub(U32(0), U32(BootBeforeWrap))
    /\ monitor_id = None
    /\ monitor_outcome = [t \in TransferIds |-> None]
    /\ next_transfer = FirstTransfer

InitHist ==
    /\ ticks = 0
    /\ fails = 0
    /\ ev_fails = 0
    /\ dropped = None
    /\ terminal_planned = [t \in TransferIds |-> 0]
    /\ seen = {}
    /\ started_by = [t \in TransferIds |-> None]
    /\ ops = <<"init", "init">>
    /\ last_cmd = None
    /\ calls = {}
    /\ inputs = None

Init ==
    /\ InitPlanner
    /\ InitEnv
    /\ InitHist
    /\ pc = "idle"
    /\ action = NoAction
    /\ InitUsb(U32(0))

(***************************************************************************)
(* Spec: the Planner under its driver, every operation, in a narrow        *)
(* environment: one command id, one transfer, a clock that jumps by        *)
(* RECONNECT_AFTER.                                                        *)
(***************************************************************************)
Paths2 == {P_usb_f, P_home}

Next ==
    \/ \E fp \in Hashes, printing \in BOOLEAN : DrvNextAction(fp, "A", printing)
    \/ \E result \in Results : DrvActionDone(result, MaxFails)
    \/ \E c \in CommandsOf({1}, Paths2, CommandKinds) :
          \E env \in EnvsOf(c, FirstTransfer) : DrvCommand(c, env)
    \/ DrvNoCommand
    \/ DrvBackgroundStep
    \/ \E result \in {"Success", "Failure"} : DrvBackgroundDone(result)
    \/ \E outcome \in Outcomes : DrvDownloadDone(outcome)
    \/ DrvWake
    \/ DrvTick(RECONNECT_AFTER, MaxTicks)
    \/ DrvForeignStart(FirstTransfer)
    \/ \E outcome \in Outcomes : DrvForeignEnd(outcome)
    \/ \E t \in TransferIds : DrvMonitorForget(t)

Spec == Init /\ [][Next]_vars


(***************************************************************************)
(* Properties of the Planner under Spec.                                   *)
(***************************************************************************)
NonInfoPending == HasValue(planned_event) /\ Val(planned_event).type # "Info"
InfoPending == HasValue(planned_event) /\ Val(planned_event).type = "Info"
\* The step is a next_action call of the driver.
NextActionStep == pc = "idle" /\ pc' # "idle"

\* C2: once action_done(Failed) has been reported 5 times in a row while the
\* same non-Info event was planned, that event is no longer planned and
\* failed_attempts is 0: no non-Info event is pending with 5 failures behind
\* it, and the call that gave it up at the 5th left failed_attempts = 0.
C2_DroppedAfterFive ==
    /\ NonInfoPending => ev_fails < GIVE_UP_AFTER_ATTEMPTS
    /\ (HasValue(dropped) /\ Val(dropped).fails = GIVE_UP_AFTER_ATTEMPTS) =>
          /\ planned_event # Some(Val(dropped).event)
          /\ failed_attempts = 0

C2_Witness ==
    /\ HasValue(dropped)
    /\ Val(dropped).fails = GIVE_UP_AFTER_ATTEMPTS
    /\ Val(dropped).event.type # "Info"
    /\ ~HasValue(planned_event)
    /\ failed_attempts = 0

\* C3: a planned Info event changes only by action_done(Ok) or
\* action_done(Refused), which clear it; no number of Failed results drops it.
C3_InfoNeverDropped ==
    [][(InfoPending /\ planned_event' # planned_event) =>
          /\ ops'[2] \in {"ok_info", "refused_info"}
          /\ planned_event' = None]_vars

C3_Witness ==
    /\ InfoPending
    /\ ev_fails >= GIVE_UP_AFTER_ATTEMPTS
    /\ ops[2] = "failed"

\* C6: a Sleep returned while an event is planned carries no background
\* command, and as long as the driver holds a Sleep that carries one (the only
\* time it advances it or calls background_done) no event is planned.
C6_NoBackgroundWhilePending ==
    /\ (action.kind = "Sleep" /\ ops[2] = "next_action" /\ HasValue(planned_event)) =>
          ~action.cmd
    /\ (pc = "sleeping" /\ action.cmd) =>
          ~HasValue(planned_event) /\ HasValue(background_command)

C6_Witness ==
    /\ pc = "sleeping"
    /\ ops[2] = "next_action"
    /\ HasValue(planned_event)
    /\ HasValue(background_command)
    /\ ~action.cmd

\* C8: a planned event E is replaced by nothing: planned_event changes from E
\* only in an action_done(Ok|Refused), which clears it, or in an
\* action_done(Failed) that gives it up; and an Event action the driver is
\* sending is the planned event.
C8_PlannedEventStays ==
    [][/\ (HasValue(planned_event) /\ planned_event' # planned_event) =>
             \/ /\ ops'[2] \in {"ok_info", "refused_info", "ok_event", "refused_event"}
                /\ planned_event' = None
             \/ /\ ops'[2] = "failed"
                /\ dropped' = Some([event |-> Val(planned_event),
                                    fails |-> ev_fails + 1])
       /\ (pc' = "sending" /\ action'.kind = "Event") => action'.event = planned_event'
      ]_vars

C8_Witness ==
    /\ pc = "sending"
    /\ action.kind = "Event"
    /\ action.event = planned_event
    /\ NonInfoPending
    /\ ev_fails >= 1
    /\ HasValue(background_command)
    /\ ops = <<"next_action", "next_action">>

\* C9: an event is given up only when action_done(Failed) was reported
\* GIVE_UP_AFTER_ATTEMPTS times while that event was planned.
C9_DroppedOnlyAfterFiveOwnFailures ==
    HasValue(dropped) => Val(dropped).fails = GIVE_UP_AFTER_ATTEMPTS

\* C5 as stated: after an action_done(Ok) that consumed a non-Info event the
\* next next_action returns SendTelemetry.
C5_TelemetryAfterEvent ==
    [][(NextActionStep /\ ops[2] = "ok_event") => action'.kind = "SendTelemetry"]_vars

\* C5 amended: after such an action_done(Ok) last_telemetry is None and the
\* next next_action never sleeps; it returns SendTelemetry unless it finds
\* the info fingerprint or the files hash changed (an Info event) or the
\* observed transfer ended with an outcome the Monitor retains (that
\* transfer's terminal event).
C5_TelemetryUnlessChange ==
    [][/\ ops'[2] = "ok_event" => last_telemetry' = None
       /\ (NextActionStep /\ ops[2] = "ok_event") =>
             LET retained == /\ observed_transfer # monitor_id
                             /\ HasValue(observed_transfer)
                             /\ HasValue(MonitorOutcome(Val(observed_transfer)))
                 changed == info_changes'.dirty \/ file_changes'.dirty
             IN  /\ action'.kind # "Sleep"
                 /\ changed =>
                       /\ action'.kind = "Event"
                       /\ Val(action'.event).type = "Info"
                 /\ (~changed /\ retained) =>
                       /\ action'.kind = "Event"
                       /\ Val(action'.event).type \in TransferEventTypes
                 /\ (~changed /\ ~retained) => action' = SendTelemetry
      ]_vars

C5_Witness ==
    /\ ops = <<"ok_event", "next_action">>
    /\ action = SendTelemetry
    /\ HasValue(background_command)


(***************************************************************************)
(* SpecCommand: the driver delivering every command variant, with two      *)
(* command ids and every path, over a link that does not fail.             *)
(***************************************************************************)
NextCommand ==
    \/ DrvNextAction("A", "A", FALSE)
    \/ \E result \in {"Ok", "Refused"} : DrvActionDone(result, 0)
    \/ \E c \in AllCommands(CommandIds, Paths) :
          \E env \in EnvsOf(c, FirstTransfer) : DrvCommand(c, env)
    \/ DrvNoCommand
    \/ DrvBackgroundStep
    \/ \E result \in {"Success", "Failure"} : DrvBackgroundDone(result)
    \/ \E outcome \in Outcomes : DrvDownloadDone(outcome)
    \/ DrvWake
    \/ DrvTick(TELEMETRY_INTERVAL_LONG, MaxTicks)

SpecCommand == Init /\ [][NextCommand]_vars

\* C10: a delivered command leaves exactly one planned event, carrying the
\* command's id, whatever the variant and whether or not a background command
\* is running; the next next_action returns that event and keeps it planned.
C10_CommandAnswered ==
    [][/\ ops'[2] = "command" =>
             /\ HasValue(last_cmd')
             /\ HasValue(planned_event')
             /\ Val(planned_event').command_id = Some(Val(last_cmd').id)
       /\ (NextActionStep /\ ops[2] = "command") =>
             /\ action' = EventAction(Val(planned_event))
             /\ planned_event' = planned_event
      ]_vars

C10_Witness ==
    /\ ops = <<"command", "next_action">>
    /\ action.kind = "Event"
    /\ action.event = planned_event
    /\ Val(planned_event).type = "Rejected"
    /\ HasValue(background_command)
    /\ Val(planned_event).command_id # background_command_id

\* The step is a command() call of the driver.
CommandStep == pc = "command" /\ HasValue(last_cmd')

\* C12: a command delivered while a background command is running plans
\* Accepted (ProcessingThisCommand) or Rejected (any other variant) with the
\* inbound id, calls neither the printer nor the transfer engine, and leaves
\* background_command, download and transfer_start_cmd as they are.
C12_BusyLeavesBackgroundAlone ==
    [][(CommandStep /\ HasValue(background_command)) =>
          /\ HasValue(planned_event')
          /\ Val(planned_event').type =
                (IF Val(last_cmd').kind = "ProcessingThisCommand"
                 THEN "Accepted" ELSE "Rejected")
          /\ Val(planned_event').command_id = Some(Val(last_cmd').id)
          /\ calls' = {}
          /\ background_command' = background_command
          /\ download' = download
          /\ transfer_start_cmd' = transfer_start_cmd
      ]_vars

C12_Witness ==
    /\ ops[2] = "command"
    /\ HasValue(last_cmd)
    /\ Val(last_cmd).kind = "Gcode"
    /\ HasValue(background_command)
    /\ Val(last_cmd).id # Val(background_command).id
    /\ Val(background_command).position = Val(background_command).size
    /\ Val(planned_event).type = "Rejected"

\* C14: StartConnectDownload asks the transfer engine exactly when the config
\* is unchanged and TLS is off; a changed config is rejected first ("Switching
\* config"), then TLS ("Encryption of downloads not supported"); download and
\* transfer_start_cmd change only when a Download comes back (stored, the
\* command id recorded, Finished planned) and stay as they are on Rejected.
C14_DownloadOnlyFromEngine ==
    [][(CommandStep /\ Val(last_cmd').kind = "StartConnectDownload") =>
          LET cmd == Val(last_cmd')
              ev == Val(planned_event')
          IN  /\ HasValue(planned_event')
              /\ ~HasValue(background_command) =>
                    /\ ("start_connect_download" \in calls') <=>
                            (~cmd.config_changed /\ ~cmd.tls)
                    /\ cmd.config_changed =>
                            ev = Rejected(cmd.id, "Switching config")
                    /\ (~cmd.config_changed /\ cmd.tls) =>
                            ev = Rejected(cmd.id, "Encryption of downloads not supported")
              /\ ev.type \in {"Finished", "Rejected"}
              /\ IF ev.type = "Finished"
                 THEN /\ "start_connect_download" \in calls'
                      /\ ~HasValue(download)
                      /\ download' = Some(next_transfer)
                      /\ transfer_start_cmd' = Some(cmd.id)
                      /\ ev = Event("Finished", Some(cmd.id))
                 ELSE /\ download' = download
                      /\ transfer_start_cmd' = transfer_start_cmd
      ]_vars

C14_Witness ==
    /\ ops[2] = "command"
    /\ HasValue(last_cmd)
    /\ Val(last_cmd).kind = "StartConnectDownload"
    /\ ~Val(last_cmd).config_changed /\ ~Val(last_cmd).tls
    /\ "start_connect_download" \in calls
    /\ download = Some(FirstTransfer)
    /\ transfer_start_cmd = Some(Val(last_cmd).id)
    /\ Val(planned_event).type = "Finished"

(***************************************************************************)
(* SpecTransfer: transfers started by StartConnectDownload and by others,  *)
(* following one another, over a link that may fail.                       *)
(***************************************************************************)
NextTransfer ==
    \/ DrvNextAction("A", "A", FALSE)
    \/ \E result \in {"Ok", "Failed"} : DrvActionDone(result, MaxFails)
    \/ \E c \in CommandsOf({1}, {P_usb_f}, {"StartConnectDownload"}) :
          \E env \in EnvsOf(c, MaxTransfers) : DrvCommand(c, env)
    \/ DrvNoCommand
    \/ \E outcome \in Outcomes : DrvDownloadDone(outcome)
    \/ DrvWake
    \/ DrvForeignStart(MaxTransfers)
    \/ \E outcome \in Outcomes : DrvForeignEnd(outcome)
    \/ \E t \in TransferIds : DrvMonitorForget(t)

SpecTransfer == Init /\ [][NextTransfer]_vars

\* C7: a transfer T the Planner has observed, that is no longer the
\* Monitor's current one and whose outcome the Monitor retains when
\* next_action compares the ids, gets its terminal event planned by that
\* comparison unless it was planned before, with the type of the outcome and
\* transfer_id = T; and no transfer has a second terminal event planned.
C7_ObservedTransferReportedOnce ==
    [][/\ \A t \in TransferIds : terminal_planned'[t] <= 1
       /\ \A t \in seen :
             (/\ NextActionStep
              /\ ~perform_cooldown
              /\ ~HasValue(planned_event)
              /\ ~info_changes'.dirty
              /\ ~file_changes'.dirty
              /\ monitor_id # Some(t)
              /\ HasValue(MonitorOutcome(t))
              /\ terminal_planned[t] = 0) =>
                 /\ HasValue(planned_event')
                 /\ Val(planned_event').type = TerminalType(Val(MonitorOutcome(t)))
                 /\ Val(planned_event').transfer_id = Some(t)
                 /\ terminal_planned'[t] = 1
      ]_vars

\* C21: whenever download is set the Monitor's current transfer is that
\* download and the engine has no Download to hand out, so the assertion in
\* download_done holds; a StartConnectDownload delivered then is rejected and
\* leaves the download in place, so the assertion before storing a Download
\* holds too.
C21_OneDownload ==
    [][/\ HasValue(download') =>
             /\ monitor_id' = download'
             /\ "Download" \notin EngineResults(MaxTransfers)'
       /\ (CommandStep /\ Val(last_cmd').kind = "StartConnectDownload"
             /\ HasValue(download)) =>
             /\ Val(planned_event').type = "Rejected"
             /\ download' = download
             /\ transfer_start_cmd' = transfer_start_cmd
      ]_vars

C21_Witness ==
    /\ ops[2] = "command"
    /\ HasValue(last_cmd)
    /\ Val(last_cmd).kind = "StartConnectDownload"
    /\ "start_connect_download" \in calls
    /\ HasValue(download)
    /\ monitor_id = download
    /\ Val(planned_event).reason = Some("Another transfer in progress")

\* C13: a transfer terminal event carries as start_cmd_id the id of the
\* command that started the transfer it names, and none when no command
\* started that transfer.
C13_StartCommandOfItsTransfer ==
    (HasValue(planned_event) /\ Val(planned_event).type \in TransferEventTypes) =>
        Val(planned_event).start_cmd_id =
            started_by[Val(Val(planned_event).transfer_id)]

(***************************************************************************)
(* SpecBackoff: a long run of failures, with events of both kinds pending  *)
(* or not, give-ups and a reconnect on the way.                            *)
(***************************************************************************)
NextBackoff ==
    \/ DrvNextAction("A", "A", FALSE)
    \/ \E result \in Results : DrvActionDone(result, MaxFailsDeep)
    \/ \E c \in CommandsOf({1}, {P_usb_f}, {"Gcode", "SendInfo"}) :
          \E env \in EnvsOf(c, FirstTransfer) : DrvCommand(c, env)
    \/ DrvNoCommand
    \/ DrvBackgroundStep
    \/ \E result \in {"Success", "Failure"} : DrvBackgroundDone(result)
    \/ DrvWake
    \/ DrvTick(RECONNECT_AFTER, MaxTicks)

SpecBackoff == Init /\ [][NextBackoff]_vars

\* C1: with no cooldown before the first of them, after N >= 1 consecutive
\* action_done(Failed) the cooldown is min(60000, 100 * 2^(N-1)) ms; fails is
\* N, the Failed results since the last Ok or Refused, before which and after
\* which there is no cooldown.
C1_CooldownDoubles ==
    /\ fails = 0 => cooldown = None
    /\ fails >= 1 => cooldown = Some(Min(60000, 100 * 2^(fails - 1)))

C1_Witness ==
    /\ fails = MaxFailsDeep
    /\ cooldown = Some(60000)
    /\ HasValue(planned_event)
    /\ last_success = None

(***************************************************************************)
(* SpecApi: the Planner's operations called in any order their assertions  *)
(* allow, as a unit test would, with a clock that reaches RECONNECT_AFTER  *)
(* exactly or falls short of it.                                           *)
(***************************************************************************)
InitApi ==
    /\ InitPlanner
    /\ InitEnv
    /\ InitHist
    /\ pc = "api"
    /\ action = NoAction
    /\ InitUsb(U32(0))

ApiNextAction(fp, fh, printing) ==
    /\ pc = "api"
    /\ NextAction(fp, fh, printing)
    /\ pc' = pc

ApiActionDone(result, cap) ==
    /\ pc = "api"
    /\ result = "Failed" => fails < cap
    /\ ActionDone(result)
    /\ pc' = pc

ApiCommand(c, env) ==
    /\ pc = "api"
    /\ Command(c, env)
    /\ pc' = pc

ApiReset ==
    /\ pc = "api"
    /\ Reset
    /\ UNCHANGED driverVars

ApiTick(d, cap) ==
    /\ pc = "api"
    /\ Tick(d, cap)
    /\ UNCHANGED driverVars

NextApi ==
    \/ ApiNextAction("A", "A", FALSE)
    \/ \E result \in {"Ok", "Failed"} : ApiActionDone(result, MaxFails)
    \/ \E c \in CommandsOf({1}, {P_usb_f}, {"SendInfo", "UnknownCommand"}) :
          \E env \in EnvsOf(c, FirstTransfer) : ApiCommand(c, env)
    \/ ApiReset
    \/ \E d \in TickSteps : ApiTick(d, MaxTicks)

SpecApi == InitApi /\ [][NextApi]_vars

\* The step is an action_done(Failed) call made with no event planned.
FailedWithNothingPlanned == fails' = fails + 1 /\ ~HasValue(planned_event)
\* last_success is set and RECONNECT_AFTER or more in the past, modulo 2^32.
SuccessLongAgo ==
    /\ HasValue(last_success)
    /\ U32AtLeast(Val(since(last_success)), RECONNECT_AFTER)

\* C4 as stated: action_done(Failed) with no event planned and last_success
\* None or 10000 ms or more in the past plans an Info event and clears
\* last_success.
C4_ReconnectAlsoWithoutSuccess ==
    [][(FailedWithNothingPlanned /\ (~HasValue(last_success) \/ SuccessLongAgo)) =>
          /\ planned_event' = Some(Event("Info", None))
          /\ last_success' = None]_vars

\* C4 amended: action_done(Failed) with no event planned plans an Info event
\* and clears last_success exactly when last_success is set and 10000 ms or
\* more in the past; with last_success None, or more recent, it plans nothing
\* and leaves last_success as it is.
C4_ReconnectAfterSuccessLongAgo ==
    [][FailedWithNothingPlanned =>
          IF SuccessLongAgo
          THEN /\ planned_event' = Some(Event("Info", None))
               /\ last_success' = None
          ELSE /\ planned_event' = None
               /\ last_success' = last_success]_vars

C4_Witness ==
    /\ ops[2] = "failed"
    /\ ev_fails = 0
    /\ planned_event = Some(Event("Info", None))
    /\ last_success = None
    /\ ticks = MaxTicks


(***************************************************************************)
(* SpecInfo: the printer's fingerprint and files hash both changing, over  *)
(* a link that may fail.                                                   *)
(***************************************************************************)
NextInfo ==
    \/ \E fp \in Hashes, fh \in Hashes : DrvNextAction(fp, fh, FALSE)
    \/ \E result \in Results : DrvActionDone(result, MaxFails)
    \/ DrvNoCommand
    \/ DrvWake
    \/ DrvTick(TELEMETRY_INTERVAL_LONG, MaxTicks)

SpecInfo == Init /\ [][NextInfo]_vars

\* C11: an Info event built by the probe of next_action while the files hash
\* the printer reports differs from the one the file tracker holds has
\* info_rescan_files set, whether or not the fingerprint changed as well.
C11_InfoRescansChangedFiles ==
    [][(/\ NextActionStep
        /\ HasValue(inputs')
        /\ HasValue(planned_event')
        /\ Val(planned_event').type = "Info"
        /\ Val(inputs').fh # file_changes.hash) =>
            Val(planned_event').info_rescan_files]_vars

\* The step is a next_action call, whoever makes it.
NextActionCall == ops' = <<ops[2], "next_action">> /\ ticks' = ticks

\* C19: perform_cooldown is never set without a cooldown (also after reset);
\* the next_action that follows action_done(Failed) returns a Sleep of the
\* cooldown and clears perform_cooldown, touching nothing else; the
\* next_action right after that one finds no cooldown due and returns the
\* event that is still planned.
C19_OneCooldownThenEvent ==
    [][/\ perform_cooldown' => HasValue(cooldown')
       /\ (NextActionCall /\ ops[2] = "failed") =>
             /\ action'.kind = "Sleep"
             /\ action'.amount = Val(cooldown)
             /\ ~perform_cooldown'
             /\ cooldown' = cooldown
             /\ planned_event' = planned_event
       /\ (NextActionCall /\ ops = <<"failed", "next_action">>) =>
             /\ ~perform_cooldown
             /\ HasValue(planned_event) =>
                   /\ action' = EventAction(Val(planned_event))
                   /\ planned_event' = planned_event
                   /\ ~perform_cooldown'
      ]_vars

C19_Witness ==
    /\ ops = <<"next_action", "next_action">>
    /\ action.kind = "Event"
    /\ action.event = planned_event
    /\ fails = 2
    /\ cooldown = Some(2 * COOLDOWN_BASE)
    /\ ~perform_cooldown

(***************************************************************************)
(* SpecTelemetry: the driver over a link that does not fail, the printer   *)
(* printing or not, a G-code command running or not, and a clock that      *)
(* advances by half and by the whole short interval, across the wrap.      *)
(***************************************************************************)
NextTelemetry ==
    \/ \E printing \in BOOLEAN : DrvNextAction("A", "A", printing)
    \/ DrvActionDone("Ok", 0)
    \/ \E c \in CommandsOf({1}, {P_usb_f}, {"Gcode"}) :
          \E env \in EnvsOf(c, FirstTransfer) : DrvCommand(c, env)
    \/ DrvNoCommand
    \/ DrvWake
    \/ \E d \in {TELEMETRY_INTERVAL_SHORT \div 2, TELEMETRY_INTERVAL_SHORT} :
          DrvTick(d, MaxTelemetryTicks)

SpecTelemetry == Init /\ [][NextTelemetry]_vars

\* The step is a next_action call that reaches the telemetry branch with
\* last_telemetry set: the printer was asked and no event got planned.
TelemetryBranch ==
    /\ NextActionStep
    /\ HasValue(inputs')
    /\ ~HasValue(planned_event')
    /\ HasValue(last_telemetry)

\* C20: in the telemetry branch with last_telemetry set the interval is 1000
\* ms when printing or a background command exists and 4000 ms otherwise;
\* SendTelemetry is returned iff (now - last_telemetry) mod 2^32 reaches the
\* interval, otherwise a Sleep of the interval less that difference, which
\* lies in 1..interval, also when the counter wrapped in between.
C20_TelemetryWhenDue ==
    [][TelemetryBranch =>
          LET interval == IF Val(inputs').printing \/ HasValue(background_command)
                          THEN TELEMETRY_INTERVAL_SHORT
                          ELSE TELEMETRY_INTERVAL_LONG
              passed == U32Sub(now, Val(last_telemetry))
          IN  IF passed[1] > 0 \/ passed[2] >= interval
              THEN action'.kind = "SendTelemetry"
              ELSE /\ action'.kind = "Sleep"
                   /\ action'.amount = interval - passed[2]
                   /\ action'.amount \in 1..interval
      ]_vars

\* A Sleep for the rest of the long interval, asked for 1000 ms after a
\* telemetry sent less than 1000 ms before the counter wrapped.
C20_Witness ==
    /\ ops[2] = "next_action"
    /\ HasValue(inputs)
    /\ ~HasValue(planned_event)
    /\ HasValue(last_telemetry)
    /\ Val(last_telemetry)[1] = Half - 1
    /\ now[1] = 0
    /\ action.kind = "Sleep"
    /\ action.amount = TELEMETRY_INTERVAL_LONG - TELEMETRY_INTERVAL_SHORT

(***************************************************************************)
(* SpecLive: the driver running forever. It sleeps every Sleep out, so the *)
(* clock advances by the Sleep's amount. The Planner reads the clock only  *)
(* through since(), so the advance is kept as the stored timestamps moving *)
(* back by the amount, modulo 2^32; the differences are the same and the   *)
(* states repeat.                                                          *)
(***************************************************************************)
Earlier(t, d) == IF HasValue(t) THEN Some(U32Sub(Val(t), U32(d))) ELSE None

DrvSleepOut ==
    /\ pc = "sleeping"
    /\ pc' = "idle"
    /\ last_telemetry' = Earlier(last_telemetry, action.amount)
    /\ last_success' = Earlier(last_success, action.amount)
    /\ UNCHANGED <<planned_event, cooldown, perform_cooldown, failed_attempts,
                   info_changes, file_changes, background_command, download,
                   observed_transfer, transfer_start_cmd, envVars, action,
                   histVars, usbVars>>

NextLive ==
    \/ \E fp \in Hashes, printing \in BOOLEAN : DrvNextAction(fp, "A", printing)
    \/ \E result \in {"Ok", "Failed"} : DrvActionDone(result, MaxFails)
    \/ \E c \in CommandsOf({1}, {P_usb_f}, {"SendInfo", "Gcode"}) :
          \E env \in EnvsOf(c, FirstTransfer) : DrvCommand(c, env)
    \/ DrvNoCommand
    \/ DrvBackgroundStep
    \/ \E result \in {"Success", "Failure"} : DrvBackgroundDone(result)
    \/ DrvSleepOut

SpecLive == Init /\ [][NextLive]_vars /\ WF_vars(NextLive)

\* C22: if from some point on no send fails, then again and again no event
\* is planned and again and again SendTelemetry is the action being sent.
C22_Progress ==
    \/ []<>(ops[2] = "failed")
    \/ /\ []<>(~HasValue(planned_event))
       /\ []<>(pc = "sending" /\ action.kind = "SendTelemetry")

\* The last call was a next_action whose probe of the printer planned an Info.
InfoProbed == ops[2] = "next_action" /\ HasValue(inputs) /\ InfoPending

\* C22, amended: if from some point on no send fails and the probe of the
\* printer's info and files plans no Info any more, then again and again no
\* event is planned and again and again SendTelemetry is the action being
\* sent.
C22_ProgressOnceInfoSettles ==
    \/ []<>(ops[2] = "failed")
    \/ []<>InfoProbed
    \/ /\ []<>(~HasValue(planned_event))
       /\ []<>(pc = "sending" /\ action.kind = "SendTelemetry")

\* A telemetry being sent again after a failure and its cooldown.
C22_Witness ==
    /\ pc = "sending"
    /\ action.kind = "SendTelemetry"
    /\ ops = <<"next_action", "next_action">>
    /\ HasValue(cooldown)
    /\ ~perform_cooldown
    /\ ~HasValue(planned_event)

(***************************************************************************)
(* SpecUsb: the USB host's handlers interleaved load by load and store by  *)
(* store, the millisecond counter advancing between their steps, from      *)
(* every boot value of the counter.                                        *)
(***************************************************************************)
InitUsbHost ==
    /\ InitPlanner
    /\ InitEnv
    /\ InitHist
    /\ pc = "idle"
    /\ action = NoAction
    /\ \E boot \in BootTicks : InitUsb(boot)

NextUsb ==
    \/ MX_USB_HOST_Init
    \/ IoErrorStep
    \/ PortDisabled
    \/ MediaStateError
    \/ USBH_UserProcessStep
    \/ MscActiveStep
    \/ TimerCallbackStep
    \/ \E d \in UsbSteps : UsbTick(d)

SpecUsb == InitUsbHost /\ [][NextUsb]_vars

\* The step is one of msc_active.
MscActiveOccurs == usb_last'.handler = "msc_active"

\* C16: msc_active goes on to resume the print exactly when the phase is
\* power_on and printing_paused is set as its test completes; print_resume is
\* called by msc_active only and the warning by the timer callback only;
\* nothing but msc_active clears printing_paused, the timer callback leaves
\* it as it is; and a step of msc_active taken in any other phase changes
\* nothing of the supervisor.
C16_ResumeOnlyFromPowerOn ==
    [][/\ (usb_last'.call = "print_resume") => MscActiveOccurs
       /\ (MscActiveOccurs /\ usbh_pc = "paused") =>
             (usbh_pc' = "clear" <=> (phase = "power_on" /\ printing_paused))
       /\ (printing_paused /\ ~printing_paused') => MscActiveOccurs
       /\ (usb_last'.call = "set_warning") =>
             usb_last'.handler = "restart_timer_callback"
       /\ (usb_last'.handler = "restart_timer_callback") =>
             printing_paused' = printing_paused
       /\ (MscActiveOccurs /\ phase # "power_on") => UNCHANGED supervisorVars
      ]_vars

\* C17: connected_at_startup becomes true only by the store of
\* USBH_UserProcess that follows a mount which succeeded less than 3000 ms
\* after MX_USB_HOST_Init, whatever the counter was at init and however long
\* the first event took to come.
C17_SetOnlyInsideWindow ==
    [][(~connected_at_startup /\ connected_at_startup') =>
          /\ usb_last'.handler = "USBH_UserProcess"
          /\ usb_last'.id = "set"
          /\ HasValue(mounted_at)
          /\ Val(mounted_at) < StartupWindow
      ]_vars

\* USBH_UserProcess has stored false for a disconnection.
Disconnected ==
    /\ usb_last'.handler = "USBH_UserProcess"
    /\ usb_last'.event = "DISCONNECTION"
    /\ usb_last'.id = "store"

\* C18: connected_at_startup is false after every USBH_UserProcess call that
\* runs later than the startup window (here: the events handled by the
\* window check alone), and after every disconnection.
C18_ResetAfterWindow ==
    [][/\ Disconnected => ~device_connected_at_startup'
       /\ (/\ usb_last'.handler = "USBH_UserProcess"
           /\ usb_last'.id = "check"
           /\ usbh_pc' = "idle"
           /\ Val(elapsed) >= StartupWindow) => ~device_connected_at_startup'
      ]_vars

\* C18, amended: connected_at_startup is false after every disconnection,
\* and only a disconnection resets it: an event after the window leaves a
\* flag that is set as it is.
C18_ResetOnlyOnDisconnect ==
    [][/\ Disconnected => ~device_connected_at_startup'
       /\ (device_connected_at_startup /\ ~device_connected_at_startup') =>
             Disconnected
      ]_vars

\* The flag was set inside the window and survives an event after it.
C18_Witness ==
    /\ device_connected_at_startup
    /\ usb_last.handler = "USBH_UserProcess"
    /\ usb_last.event = "CONNECTION"
    /\ Val(elapsed) = StartupWindow
    /\ one_click_print_timeout = U32(0)

(***************************************************************************)
(* SpecUsbRace: the same handlers from boot at zero, the counter standing  *)
(* still; port_disabled, an interrupt handler, is one step.                *)
(***************************************************************************)
NextUsbRace ==
    \/ MX_USB_HOST_Init
    \/ IoErrorStep
    \/ PortDisabled
    \/ MediaStateError
    \/ USBH_UserProcessStep
    \/ MscActiveStep
    \/ TimerCallbackStep

SpecUsbRace == Init /\ [][NextUsbRace]_vars

CyclePhaseChanges ==
    {<<"idle", "power_off">>, <<"power_off", "power_on">>, <<"power_on", "idle">>}

\* C15: under every interleaving of io_error, port_disabled, msc_active and
\* the timer callback the phase changes only idle -> power_off, power_off ->
\* power_on and power_on -> idle, and a step of io_error or port_disabled
\* taken while the phase is not idle changes neither the phase nor the
\* restart timer.
C15_OnlyCyclePhaseChanges ==
    [][/\ phase' # phase => <<phase, phase'>> \in CyclePhaseChanges
       /\ (usb_last'.handler \in {"io_error", "port_disabled"} /\ phase # "idle") =>
             /\ phase' = phase
             /\ restart_timer' = restart_timer
      ]_vars

(***************************************************************************)
(* SpecUsbLive: SpecUsbRace with a timer service that runs every armed     *)
(* timer's callback, and every callback to its end; a handler that a task  *)
(* has entered runs to its end as well.                                    *)
(***************************************************************************)
SpecUsbLive ==
    /\ SpecUsbRace
    /\ WF_vars(TimerCallbackStep)
    /\ WF_vars(MscActiveStep)
    /\ WF_vars(usbh_pc # "idle" /\ USBH_UserProcessStep)
    /\ WF_vars(worker_pc # "idle" /\ IoErrorStep)

\* The last step was a trigger that armed the timer, the phase being idle.
TriggerArmed ==
    /\ HasValue(restart_timer)
    /\ phase = "idle"
    /\ \/ usb_last.handler = "port_disabled"
       \/ usb_last.handler = "io_error" /\ usb_last.id = "arm"

\* C23: once a trigger seen in idle has armed the timer, the supervisor gets
\* to power_off, from power_off to power_on, and from power_on back to idle,
\* whatever triggers, media_state_error and msc_active do in between.
C23_CycleCompletes ==
    /\ TriggerArmed ~> (phase = "power_off")
    /\ (phase = "power_off") ~> (phase = "power_on")
    /\ (phase = "power_on") ~> (phase = "idle")

\* C24: in one power cycle the supervisor does not both resume the print and
\* raise the USBFlashDiskError warning, however msc_active and the timer
\* callback interleave.
C24_ResumeOrWarning == ~({"print_resume", "set_warning"} \subseteq recoveries)

\* C25: whenever the supervisor rests in idle with the restart timer dormant
\* (the callback not running), the last operation on the host stack is
\* USBH_Start or none, and every USBH_Stop is followed by a USBH_Start.
C25_StackStartedOutsideCycle ==
    /\ [](phase = "idle" /\ ~HasValue(restart_timer) /\ svc_pc[1] = "idle"
            => stack_last \in {"USBH_Start", "none"})
    /\ (stack_last = "USBH_Stop") ~> (stack_last = "USBH_Start")

====
